---- MODULE Spec2Model ----
(***************************************************************************)
(* A model of rbtools/clients/bazaar.py: the BazaarClient adapter that     *)
(* shells out to the bzr command line.  Python strings are modelled as     *)
(* sequences of one-character strings, so that rstrip, split, "in" and the *)
(* date regular expression are computed the way the code computes them.    *)
(* Optional values (None or a value) are records [isNone, v].              *)
(***************************************************************************)
EXTENDS Integers, Sequences, FiniteSets, TLC

VARIABLES options, last

vars == <<options, last>>

(* ------------------------------ bounds -------------------------------- *)

\* Longest endpoint of a caller-supplied revision range, in characters.
MaxEndpointLen == 2

(* ------------------------- Python value helpers ------------------------ *)

NoneV == [isNone |-> TRUE, v |-> <<>>]

Some(x) == [isNone |-> FALSE, v |-> x]

\* Python truthiness of an optional string or list: None and "" / [] are falsy.
Truthy(x) == ~x.isNone /\ x.v # <<>>

\* The characters str.rstrip() removes (the vertical tab, which TLA+ strings
\* cannot write, is left out; no modelled output contains it).
Whitespace == {" ", "\n", "\t", "\r", "\f"}

Digits == {"0", "1", "2", "3", "4", "5", "6", "7", "8", "9"}

\* str.rstrip(): drop trailing whitespace characters.
RECURSIVE rstrip(_)
rstrip(s) ==
    IF s # <<>> /\ s[Len(s)] \in Whitespace
    THEN rstrip(SubSeq(s, 1, Len(s) - 1))
    ELSE s

\* Python's "sub in s" on strings.
Contains(s, sub) ==
    \E i \in 1..(Len(s) - Len(sub) + 1) : SubSeq(s, i, i + Len(sub) - 1) = sub

dotdot == <<".", ".">>

\* Positions where the separator ".." starts in s.
SepPositions(s) == {i \in 1..(Len(s) - 1) : SubSeq(s, i, i + 1) = dotdot}

Min(S) == CHOOSE x \in S : \A y \in S : x <= y

\* str.split(".."): left to right, non-overlapping occurrences.
RECURSIVE split(_)
split(s) ==
    IF SepPositions(s) = {}
    THEN <<s>>
    ELSE LET i == Min(SepPositions(s))
         IN  <<SubSeq(s, 1, i - 1)>> \o split(SubSeq(s, i + 2, Len(s)))

\* Whether \d{4}-\d{2}-\d{2} matches s starting at (1-based) position i.
DateAt(s, i) ==
    /\ i + 9 <= Len(s)
    /\ \A k \in {0, 1, 2, 3, 5, 6, 8, 9} : s[i + k] \in Digits
    /\ s[i + 4] = "-"
    /\ s[i + 7] = "-"

\* re.search(r"\d{4}-\d{2}-\d{2}", s): None, or the match's end() offset
\* (0-based, exclusive) of the leftmost match.
re_search_date(s) ==
    LET starts == {i \in 1..Len(s) : DateAt(s, i)}
    IN  IF starts = {} THEN NoneV ELSE Some(Min(starts) + 9)

\* s[n:] for a 0-based offset n >= 0.
SliceFrom(s, n) == SubSeq(s, n + 1, Len(s))

(* ----------------------- the external collaborators -------------------- *)

\* Exit code of "bzr config" for an option that does not exist.
OptionMissingExit == 3

\* What a subprocess did: its captured output and its exit code.
Outcome(out, rc) == [out |-> out, rc |-> rc]

\* rbtools.utils.process.execute: returns the output, or dies (fatal exit)
\* on a non-zero exit code that the caller did not ask to ignore.
execute(o, ignore_errors, extra_ignore_errors) ==
    IF o.rc # 0 /\ ~ignore_errors /\ o.rc \notin extra_ignore_errors
    THEN [exc |-> "die", ret |-> NoneV]
    ELSE [exc |-> "none", ret |-> Some(o.out)]

\* rbtools.utils.checks.check_install("bzr help"): runs the command and
\* reports whether the tool could be started.  Its answer is the input
\* "installed" of get_repository_info.
bzr_help == <<<<"b", "z", "r">>, <<"h", "e", "l", "p">> (* help *)>>

(* ------------------------------ words ---------------------------------- *)

bzr == <<"b", "z", "r">>
submit_branch == <<"s", "u", "b", "m", "i", "t", "_", "b", "r", "a", "n", "c", "h">> (* submit_branch *)
parent_location == <<"p", "a", "r", "e", "n", "t", "_", "l", "o", "c", "a", "t", "i", "o", "n">> (* parent_location *)
reviewboard_url == <<"r", "e", "v", "i", "e", "w", "b", "o", "a", "r", "d", "_", "u", "r", "l">> (* reviewboard_url *)

\* Names bound in the module's global namespace: the imports and the class.
ModuleGlobals ==
    {"os", "re", "sys", "SCMClient", "RepositoryInfo", "check_install",
     "die", "execute", "workingtree", "BazaarClient"}

\* Calling a name that is neither a module global nor a builtin raises
\* NameError at the call.
NameDefined(n) == n \in ModuleGlobals

(* ------------------------------ _get_config ---------------------------- *)

ErrorMessage(name) ==
    <<"E", "R", "R", "O", "R", ":", " ", "T", "h", "e", " ", "\"">> (* ERROR: The " *) \o name \o <<"\"", " ", "c", "o", "n", "f", "i", "g", "u", "r", "a", "t", "i", "o", "n", " ", "o", "p", "t", "i", "o", "n", " ", "d", "o", "e", "s", " ", "n", "o", "t", " ", "e", "x", "i", "s", "t", ".">> (* " configuration option does not exist. *)

get_config_cmd(name) == <<bzr, <<"c", "o", "n", "f", "i", "g">> (* config *), name>>

get_config_no_check(name, o) ==
    LET e == execute(o, FALSE, {OptionMissingExit})
    IN  IF e.exc # "none"
        THEN [exc |-> e.exc, ret |-> NoneV, calls |-> <<get_config_cmd(name)>>]
        ELSE [exc |-> "none", ret |-> Some(rstrip(e.ret.v)),
              calls |-> <<get_config_cmd(name)>>]

\* _get_config(name): o is what "bzr config name" did.
get_config(name, o) ==
    LET e == execute(o, FALSE, {OptionMissingExit})
    IN  IF e.exc # "none"
        THEN [exc |-> e.exc, ret |-> NoneV, calls |-> <<get_config_cmd(name)>>]
        ELSE IF Contains(e.ret.v, ErrorMessage(name))
        THEN [exc |-> "none", ret |-> NoneV, calls |-> <<get_config_cmd(name)>>]
        ELSE [exc |-> "none", ret |-> Some(rstrip(e.ret.v)),
              calls |-> <<get_config_cmd(name)>>]

(* -------------------------- get_repository_info ------------------------ *)

RepositoryInfo(path) ==
    [path |-> path, base_path |-> <<"/">>, supports_parent_diffs |-> TRUE]

locations_swapped == <<parent_location, submit_branch>>

\* The keys queried, in order.
locations == <<submit_branch, parent_location>>

\* The for loop over locations: cfg[i] is what "bzr config locations[i]"
\* would do if it were run.  Returns the branch found and the commands run.
RECURSIVE find_branch(_, _)
find_branch(i, cfg) ==
    IF i > Len(locations)
    THEN [exc |-> "none", ret |-> NoneV, calls |-> <<>>]
    ELSE LET r == get_config(locations[i], cfg[i])
         IN  IF r.exc # "none" \/ ~r.ret.isNone
             THEN r
             ELSE LET rest == find_branch(i + 1, cfg)
                  IN  [rest EXCEPT !.calls = r.calls \o rest.calls]

get_repository_info_no_url(opts, installed, cfg) ==
    IF ~installed
    THEN [exc |-> "none", ret |-> NoneV, calls |-> <<bzr_help>>]
    ELSE LET b == find_branch(1, cfg)
         IN  IF b.exc # "none"
             THEN [exc |-> b.exc, ret |-> NoneV, calls |-> <<bzr_help>> \o b.calls]
             ELSE IF b.ret.isNone
             THEN [exc |-> "none", ret |-> NoneV, calls |-> <<bzr_help>> \o b.calls]
             ELSE [exc |-> "none", ret |-> Some(RepositoryInfo(b.ret.v)),
                   calls |-> <<bzr_help>> \o b.calls]

get_repository_info(opts, installed, cfg) ==
    IF ~installed
    THEN [exc |-> "none", ret |-> NoneV, calls |-> <<bzr_help>>]
    ELSE IF Truthy(opts.repository_url)
    THEN [exc |-> "none", ret |-> Some(RepositoryInfo(opts.repository_url.v)),
          calls |-> <<bzr_help>>]
    ELSE LET b == find_branch(1, cfg)
         IN  IF b.exc # "none"
             THEN [exc |-> b.exc, ret |-> NoneV, calls |-> <<bzr_help>> \o b.calls]
             ELSE IF b.ret.isNone
             THEN [exc |-> "none", ret |-> NoneV, calls |-> <<bzr_help>> \o b.calls]
             ELSE [exc |-> "none", ret |-> Some(RepositoryInfo(b.ret.v)),
                   calls |-> <<bzr_help>> \o b.calls]

(* ------------------------------ _get_range_diff ------------------------ *)

diff_cmd(revision_range) == <<bzr, <<"d", "i", "f">>, <<"-", "q">>, <<"-", "r">>, revision_range>>

get_range_diff_keep_empty(revision_range, files, o) ==
    LET e == execute(o, TRUE, {})
    IN  [exc |-> e.exc, ret |-> e.ret,
         calls |-> <<diff_cmd(revision_range) \o files>>]

\* _get_range_diff(revision_range, files): o is what "bzr dif" did.  (The
\* print of the argv to standard output is not part of the state.)
get_range_diff(revision_range, files, o) ==
    LET e == execute(o, TRUE, {})
        diff == IF Truthy(e.ret) THEN e.ret ELSE NoneV
    IN  [exc |-> e.exc, ret |-> diff,
         calls |-> <<diff_cmd(revision_range) \o files>>]

(* ------------------------------ _extract_summary ----------------------- *)

log_line_cmd(revision) == <<bzr, <<"l", "o", "g">>, <<"-", "r">>, revision, <<"-", "-", "l", "i", "n", "e">> (* --line *)>>

\* _extract_summary(revision): o is what "bzr log -r revision --line" did.
extract_summary(revision, o) ==
    LET e == execute(o, FALSE, {})
        log_message == rstrip(e.ret.v)
        log_message_match == re_search_date(log_message)
        truncated_characters == log_message_match.v + 1
        summary == SliceFrom(log_message, truncated_characters)
        calls == <<log_line_cmd(revision)>>
    IN  IF e.exc # "none"
        THEN [exc |-> e.exc, ret |-> NoneV, calls |-> calls]
        ELSE IF log_message_match.isNone
        THEN [exc |-> "AttributeError", ret |-> NoneV, calls |-> calls]
        ELSE IF ~NameDefined("debug")
        THEN [exc |-> "NameError", ret |-> NoneV, calls |-> calls]
        ELSE [exc |-> "none", ret |-> Some(summary), calls |-> calls]

(* ---------------------------- _extract_description --------------------- *)

log_range_cmd(revision_range) ==
    <<bzr, <<"l", "o", "g">>, <<"-", "n", "1">>, <<"-", "-", "g", "n", "u", "-", "c", "h", "a", "n", "g", "e", "l", "o", "g">> (* --gnu-changelog *), <<"-", "-", "e", "x", "c", "l", "u", "d", "e", "-", "c", "o", "m", "m", "o", "n", "-", "a", "n", "c", "e", "s", "t", "r", "y">> (* --exclude-common-ancestry *),
      <<"-", "r">>, revision_range, <<"-", "-", "s", "h", "o", "r", "t">> (* --short *)>>

missing_cmd(branch) ==
    <<bzr, <<"m", "i", "s", "s", "i", "n", "g">> (* missing *), <<"-", "q">>, <<"-", "-", "m", "i", "n", "e", "-", "o", "n", "l", "y">> (* --mine-only *), <<"-", "-", "g", "n", "u", "-", "c", "h", "a", "n", "g", "e", "l", "o", "g">> (* --gnu-changelog *), branch,
      <<"-", "-", "s", "h", "o", "r", "t">> (* --short *)>>

\* _extract_description(revision_range=None): o is what the log or missing
\* subcommand did.
extract_description(opts, revision_range, o) ==
    LET branch == IF Truthy(opts.parent_branch)
                  THEN opts.parent_branch.v
                  ELSE <<":", "s", "u", "b", "m", "i", "t">> (* :submit *)
        command == IF Truthy(revision_range)
                   THEN log_range_cmd(revision_range.v)
                   ELSE missing_cmd(branch)
        e == execute(o, TRUE, {})
        changelog == rstrip(e.ret.v)
    IN  IF e.exc # "none"
        THEN [exc |-> e.exc, ret |-> NoneV, calls |-> <<command>>]
        ELSE IF ~NameDefined("debug")
        THEN [exc |-> "NameError", ret |-> NoneV, calls |-> <<command>>]
        ELSE [exc |-> "none", ret |-> Some(changelog), calls |-> <<command>>]

(* ------------------------ _set_summary / _set_description -------------- *)

set_summary_reset(opts, revision, o) ==
    IF opts.guess_summary /\ ~Truthy(opts.summary)
    THEN LET r == extract_summary(revision, o)
         IN  IF r.exc # "none"
             THEN [exc |-> r.exc, opts |-> opts, calls |-> r.calls]
             ELSE [exc |-> "none", opts |-> [opts EXCEPT !.summary = r.ret],
                   calls |-> r.calls]
    ELSE [exc |-> "none", opts |-> [opts EXCEPT !.summary = NoneV],
          calls |-> <<>>]

\* _set_summary(revision)
set_summary(opts, revision, o) ==
    IF opts.guess_summary /\ ~Truthy(opts.summary)
    THEN LET r == extract_summary(revision, o)
         IN  IF r.exc # "none"
             THEN [exc |-> r.exc, opts |-> opts, calls |-> r.calls]
             ELSE [exc |-> "none", opts |-> [opts EXCEPT !.summary = r.ret],
                   calls |-> r.calls]
    ELSE [exc |-> "none", opts |-> opts, calls |-> <<>>]

\* _set_description(revision_range=None)
set_description(opts, revision_range, o) ==
    IF opts.guess_description /\ ~Truthy(opts.description)
    THEN LET r == extract_description(opts, revision_range, o)
         IN  IF r.exc # "none"
             THEN [exc |-> r.exc, opts |-> opts, calls |-> r.calls]
             ELSE [exc |-> "none",
                   opts |-> [opts EXCEPT !.description = r.ret],
                   calls |-> r.calls]
    ELSE [exc |-> "none", opts |-> opts, calls |-> <<>>]

(* ------------------------ diff / diff_between_revisions ---------------- *)

submit_range_no_colon == <<"s", "u", "b", "m", "i", "t", ".", ".">> (* submit.. *)

submit_range == <<"s", "u", "b", "m", "i", "t", ":", ".", ".">> (* submit:.. *)

ancestor_range(parent_branch) == <<"a", "n", "c", "e", "s", "t", "o", "r", ":">> (* ancestor: *) \o parent_branch \o dotdot

\* The steps shared by both flows once the range and the revision of the
\* summary are known: the diff, then the summary, then the description.
\* d, l and c are what the diff, the line log and the changelog log do.
flow(opts, revision_range, summary_revision, description_range, files, d, l, c) ==
    LET r1 == get_range_diff(revision_range, files, d)
        r2 == set_summary(opts, summary_revision, l)
        r3 == set_description(r2.opts, description_range, c)
    IN  IF r2.exc # "none"
        THEN [exc |-> r2.exc, ret |-> NoneV, opts |-> r2.opts,
              calls |-> r1.calls \o r2.calls]
        ELSE IF r3.exc # "none"
        THEN [exc |-> r3.exc, ret |-> NoneV, opts |-> r3.opts,
              calls |-> r1.calls \o r2.calls \o r3.calls]
        ELSE [exc |-> "none", ret |-> r1.ret, opts |-> r3.opts,
              calls |-> r1.calls \o r2.calls \o r3.calls]

diff_no_description_range(opts, files, d, l, c) ==
    LET fs == IF Truthy(files) THEN files.v ELSE <<>>
        revision_range == IF Truthy(opts.parent_branch)
                          THEN ancestor_range(opts.parent_branch.v)
                          ELSE submit_range
        r == flow(opts, revision_range, <<"-", "1">>, NoneV, fs, d, l, c)
    IN  IF r.exc # "none" THEN r ELSE [r EXCEPT !.ret = Some(<<r.ret, NoneV>>)]

\* diff(files)
diff(opts, files, d, l, c) ==
    LET fs == IF Truthy(files) THEN files.v ELSE <<>>
        revision_range == IF Truthy(opts.parent_branch)
                          THEN ancestor_range(opts.parent_branch.v)
                          ELSE submit_range
        r == flow(opts, revision_range, <<"-", "1">>, Some(revision_range), fs, d, l, c)
    IN  IF r.exc # "none" THEN r ELSE [r EXCEPT !.ret = Some(<<r.ret, NoneV>>)]

\* diff_between_revisions(revision_range, files, repository_info)
diff_between_revisions(opts, revision_range, files, d, l, c) ==
    LET r1 == get_range_diff(revision_range, files, d)
        parts == split(revision_range)
    IN  IF Len(parts) < 2
        THEN [exc |-> "IndexError", ret |-> NoneV, opts |-> opts,
              calls |-> r1.calls]
        ELSE flow(opts, revision_range, parts[2], Some(revision_range),
                  files, d, l, c)

(* ------------------------------ inputs --------------------------------- *)

\* Characters of a revision-range endpoint: a digit and the dot that also
\* makes up the ".." separator (as in the relative branch path "..").
EndpointAlphabet == {".", "1"}

Endpoints ==
    UNION {[1..k -> EndpointAlphabet] : k \in 0..MaxEndpointLen}

\* Caller-supplied range strings: from..to, and strings without the form.
RangeInputs ==
    {f \o dotdot \o t : f \in Endpoints, t \in Endpoints} \cup Endpoints

FileArgs == {<<>>, <<<<"a", ".", "p", "y">> (* a.py *)>>}

DiffText == <<"=", "=", "=", " ", "m", "o", "d", "i", "f", "i", "e", "d", " ", "f", "i", "l", "e", " ", "'", "a", ".", "p", "y", "'", "\n", "+", "x", "\n">> (* === modified file 'a.py'\n+x\n *)

\* bzr dif exits 0 without changes, 1 with changes and 3 on an error.
DiffOutcomes ==
    {Outcome(<<>>, 0), Outcome(<<>>, 3), Outcome(DiffText, 1),
     Outcome(DiffText, 0)}


JaneLine == <<"1", "2", "3", ":", " ", "J", "a", "n", "e", " ", "D", "o", "e", " ", "2", "0", "2", "4", "-", "0", "1", "-", "0", "5", " ", "F", "i", "x", "e", "d", " ", "t", "h", "e", " ", "t", "h", "i", "n", "g">> (* 123: Jane Doe 2024-01-05 Fixed the thing *)

LogLines ==
    {JaneLine,
     JaneLine \o <<"\n">>,
     <<"7", ":", " ", "r", "2", "d", "2", " ", "2", "0", "2", "4", "-", "0", "1", "-", "0", "5", " ", "s", "e", "e", " ", "2", "0", "2", "3", "-", "1", "2", "-", "3", "1", " ", "n", "o", "t", "e", "s", "\n">> (* 7: r2d2 2024-01-05 see 2023-12-31 notes\n *),
     <<"8", ":", " ", "J", "a", "n", "e", " ", "D", "o", "e", " ", "2", "0", "2", "4", "-", "0", "1", "-", "0", "5", "\n">> (* 8: Jane Doe 2024-01-05\n *),
     <<"b", "z", "r", ":", " ", "E", "R", "R", "O", "R", ":", " ", "n", "o", " ", "s", "u", "c", "h", " ", "r", "e", "v", "i", "s", "i", "o", "n", "\n">> (* bzr: ERROR: no such revision\n *),
     <<>>}

\* What "bzr log --line" does within a flow: the line of the revision, or
\* an error with exit code 3.
LogLineOutcomes ==
    {Outcome(JaneLine \o <<"\n">>, 0),
     Outcome(<<"b", "z", "r", ":", " ", "E", "R", "R", "O", "R", ":", " ", "n", "o", " ", "s", "u", "c", "h", " ", "r", "e", "v", "i", "s", "i", "o", "n", "\n">> (* bzr: ERROR: no such revision\n *), 3)}

ChangelogOutcomes ==
    {Outcome(<<"2", "0", "2", "4", "-", "0", "1", "-", "0", "5", " ", " ", "J", "a", "n", "e", " ", "D", "o", "e", "\n", "\n", "	", "F", "i", "x", "e", "d", " ", "t", "h", "e", " ", "t", "h", "i", "n", "g", "\n", "\n">> (* 2024-01-05  Jane Doe\n\n\tFixed the thing\n\n *), 0),
     Outcome(<<>>, 3)}

ConfigNames == {submit_branch, parent_location, reviewboard_url}

ConfigOutcomes(name) ==
    {Outcome(ErrorMessage(name) \o <<"\n">>, OptionMissingExit),
     Outcome(<<"b", "z", "r", ":", " ">> (* bzr:  *) \o ErrorMessage(name) \o <<"\n">>, OptionMissingExit),
     Outcome(<<"l", "p", ":", "p", "r", "o", "j", "/">> (* lp:proj/ *) \o name \o <<" ", "\n">>, 0),
     Outcome(<<"\n">>, 0),
     Outcome(<<"b", "z", "r", ":", " ", "E", "R", "R", "O", "R", ":", " ", "N", "o", "t", " ", "a", " ", "b", "r", "a", "n", "c", "h", ".", "\n">> (* bzr: ERROR: Not a branch.\n *), OptionMissingExit),
     Outcome(<<>>, 1)}

TextValues == {NoneV, Some(<<>>), Some(<<"F", "i", "x">>)}

OptionsSet ==
    [guess_summary : BOOLEAN,
     guess_description : BOOLEAN,
     summary : TextValues,
     description : TextValues,
     parent_branch : {NoneV, Some(<<"t", "r", "u", "n", "k">> (* trunk *))},
     repository_url : {NoneV, Some(<<"l", "p", ":", "m", "y", "p", "r", "o", "j">> (* lp:myproj *))}]

(* ------------------------------ the state machine ---------------------- *)

\* last is the call just made on the client: its name, its arguments (for
\* the two flows also the options at entry), the exception it raised or
\* "none", its return value and the argv of every subprocess it started.
\* Idle: no call in progress or returned, the client object is ready.
Idle == [op |-> "idle", args |-> <<>>, exc |-> "none", ret |-> NoneV,
         calls |-> <<>>]

Init ==
    /\ options \in OptionsSet
    /\ last = Idle

GetRepositoryInfo ==
    /\ last.op = "idle"
    /\ \E installed \in BOOLEAN :
       \E c1 \in ConfigOutcomes(locations[1]) :
       \E c2 \in ConfigOutcomes(locations[2]) :
          \E r \in {get_repository_info(options, installed, <<c1, c2>>)} :
              last' = [op |-> "get_repository_info",
                       args |-> [installed |-> installed, cfg |-> <<c1, c2>>],
                       exc |-> r.exc, ret |-> r.ret, calls |-> r.calls]
    /\ UNCHANGED options

GetConfig ==
    /\ last.op = "idle"
    /\ \E name \in ConfigNames :
       \E o \in ConfigOutcomes(name) \cup ConfigOutcomes(submit_branch) :
          \E r \in {get_config(name, o)} :
              last' = [op |-> "_get_config",
                       args |-> [name |-> name, o |-> o],
                       exc |-> r.exc, ret |-> r.ret, calls |-> r.calls]
    /\ UNCHANGED options

GetRangeDiff ==
    /\ last.op = "idle"
    /\ \E revision_range \in RangeInputs :
       \E files \in FileArgs :
       \E o \in DiffOutcomes :
          \E r \in {get_range_diff(revision_range, files, o)} :
              last' = [op |-> "_get_range_diff",
                       args |-> [revision_range |-> revision_range,
                                 files |-> files, o |-> o],
                       exc |-> r.exc, ret |-> r.ret, calls |-> r.calls]
    /\ UNCHANGED options

ExtractSummary ==
    /\ last.op = "idle"
    /\ \E revision \in Endpoints :
       \E out \in LogLines :
       \E rc \in {0, 3} :
          \E r \in {extract_summary(revision, Outcome(out, rc))} :
              last' = [op |-> "_extract_summary",
                       args |-> [revision |-> revision, o |-> Outcome(out, rc)],
                       exc |-> r.exc, ret |-> r.ret, calls |-> r.calls]
    /\ UNCHANGED options

ExtractDescription ==
    /\ last.op = "idle"
    /\ \E revision_range \in {NoneV} \cup {Some(x) : x \in RangeInputs} :
       \E o \in ChangelogOutcomes :
          \E r \in {extract_description(options, revision_range, o)} :
              last' = [op |-> "_extract_description",
                       args |-> [revision_range |-> revision_range, o |-> o],
                       exc |-> r.exc, ret |-> r.ret, calls |-> r.calls]
    /\ UNCHANGED options

Diff ==
    /\ last.op = "idle"
    /\ \E files \in {NoneV} \cup {Some(f) : f \in FileArgs} :
       \E d \in DiffOutcomes :
       \E l \in LogLineOutcomes :
       \E c \in ChangelogOutcomes :
          \E r \in {diff(options, files, d, l, c)} :
              /\ last' = [op |-> "diff",
                          args |-> [opts |-> options, files |-> files,
                                    d |-> d],
                          exc |-> r.exc, ret |-> r.ret, calls |-> r.calls]
              /\ options' = r.opts

DiffBetweenRevisions ==
    /\ last.op = "idle"
    /\ \E revision_range \in RangeInputs :
       \E files \in FileArgs :
       \E d \in DiffOutcomes :
       \E l \in LogLineOutcomes :
       \E c \in ChangelogOutcomes :
          \E r \in {diff_between_revisions(options, revision_range, files, d, l, c)} :
              /\ last' = [op |-> "diff_between_revisions",
                          args |-> [opts |-> options,
                                    revision_range |-> revision_range,
                                    files |-> files, d |-> d],
                          exc |-> r.exc, ret |-> r.ret, calls |-> r.calls]
              /\ options' = r.opts

\* The caller takes the result (or handles the exception); the client
\* object, with its options, stays in use.
Return ==
    /\ last.op # "idle"
    /\ last' = Idle
    /\ UNCHANGED options

Next ==
    \/ GetRepositoryInfo
    \/ GetConfig
    \/ GetRangeDiff
    \/ ExtractSummary
    \/ ExtractDescription
    \/ Diff
    \/ DiffBetweenRevisions
    \/ Return

Spec == Init /\ [][Next]_vars

(* ------------------------------ properties ----------------------------- *)

Flows == {"diff", "diff_between_revisions"}

IsConfigCall(c) == Len(c) >= 2 /\ c[2] = <<"c", "o", "n", "f", "i", "g">> (* config *)

IsDiffCall(c) == Len(c) >= 2 /\ c[2] = <<"d", "i", "f">>

IsLogLineCall(c) == Len(c) >= 2 /\ c[2] = <<"l", "o", "g">> /\ c[Len(c)] = <<"-", "-", "l", "i", "n", "e">> (* --line *)

IsChangelogCall(c) == Len(c) >= 3 /\ c[2] = <<"l", "o", "g">> /\ c[3] = <<"-", "n", "1">>

IsMissingCall(c) == Len(c) >= 2 /\ c[2] = <<"m", "i", "s", "s", "i", "n", "g">> (* missing *)

Indexes(P(_)) == {i \in 1..Len(last.calls) : P(last.calls[i])}

\* t is s without its trailing whitespace.
IsRstripOf(t, s) ==
    \E n \in 0..Len(s) :
        /\ t = SubSeq(s, 1, n)
        /\ n = 0 \/ s[n] \notin Whitespace
        /\ \A i \in (n + 1)..Len(s) : s[i] \in Whitespace

\* C1: fill if absent, never overwrite.  In both flows, a field (summary,
\* description) that was non-empty at entry, or whose guess flag is false,
\* has the same value after the call.
C1_FillIfAbsent ==
    last.op \in Flows =>
        /\ (Truthy(last.args.opts.summary) \/ ~last.args.opts.guess_summary)
              => options.summary = last.args.opts.summary
        /\ (Truthy(last.args.opts.description)
               \/ ~last.args.opts.guess_description)
              => options.description = last.args.opts.description

C1_Witness ==
    /\ last.op = "diff"
    /\ last.exc = "none"
    /\ last.args.opts.guess_summary
    /\ last.args.opts.summary = Some(<<"F", "i", "x">>)
    /\ options.summary = Some(<<"F", "i", "x">>)
    /\ Len(last.calls) = 1

\* C2: with bzr installed and no explicit repository URL, "bzr config" is
\* run for submit_branch first and for parent_location only if submit_branch
\* is absent; the path returned is the first value found; the result is
\* absent exactly when both keys are absent; every RepositoryInfo returned
\* has base_path "/" and supports_parent_diffs true.
C2_PriorityOrder ==
    last.op = "get_repository_info" =>
        /\ (last.exc = "none" /\ ~last.ret.isNone) =>
              /\ last.ret.v.base_path = <<"/">>
              /\ last.ret.v.supports_parent_diffs
        /\ (last.args.installed /\ ~Truthy(options.repository_url)) =>
              LET v1 == get_config(submit_branch, last.args.cfg[1])
                  v2 == get_config(parent_location, last.args.cfg[2])
                  n == Len(last.calls)
              IN  /\ n \in {2, 3}
                  /\ last.calls[2] = <<<<"b", "z", "r">>, <<"c", "o", "n", "f", "i", "g">> (* config *), <<"s", "u", "b", "m", "i", "t", "_", "b", "r", "a", "n", "c", "h">> (* submit_branch *)>>
                  /\ n = 3 => last.calls[3] =
                                <<<<"b", "z", "r">>, <<"c", "o", "n", "f", "i", "g">> (* config *), <<"p", "a", "r", "e", "n", "t", "_", "l", "o", "c", "a", "t", "i", "o", "n">> (* parent_location *)>>
                  /\ (v1.exc = "none" /\ ~v1.ret.isNone) =>
                        /\ last.exc = "none"
                        /\ ~last.ret.isNone
                        /\ last.ret.v.path = v1.ret.v
                        /\ n = 2
                  /\ (v1.exc = "none" /\ v1.ret.isNone) => n = 3
                  /\ (v1.exc = "none" /\ v1.ret.isNone
                        /\ v2.exc = "none" /\ ~v2.ret.isNone) =>
                        /\ last.exc = "none"
                        /\ ~last.ret.isNone
                        /\ last.ret.v.path = v2.ret.v
                  /\ last.exc = "none" =>
                        (last.ret.isNone <=> (v1.ret.isNone /\ v2.ret.isNone))

C2_Witness ==
    /\ last.op = "get_repository_info"
    /\ last.args.installed
    /\ ~Truthy(options.repository_url)
    /\ last.args.cfg[1].out = <<"l", "p", ":", "p", "r", "o", "j", "/", "s", "u", "b", "m", "i", "t", "_", "b", "r", "a", "n", "c", "h", " ", "\n">> (* lp:proj/submit_branch \n *)
    /\ last.args.cfg[2].out = <<"l", "p", ":", "p", "r", "o", "j", "/", "p", "a", "r", "e", "n", "t", "_", "l", "o", "c", "a", "t", "i", "o", "n", " ", "\n">> (* lp:proj/parent_location \n *)
    /\ last.exc = "none"
    /\ last.ret = Some([path |-> <<"l", "p", ":", "p", "r", "o", "j", "/", "s", "u", "b", "m", "i", "t", "_", "b", "r", "a", "n", "c", "h">> (* lp:proj/submit_branch *),
                        base_path |-> <<"/">>,
                        supports_parent_diffs |-> TRUE])
    /\ Len(last.calls) = 2

\* C3: with bzr installed and a non-empty options.repository_url u,
\* get_repository_info returns {path: u, base_path: "/",
\* supports_parent_diffs: true} and runs no "bzr config" subprocess.
C3_ExplicitUrl ==
    (/\ last.op = "get_repository_info"
     /\ last.args.installed
     /\ Truthy(options.repository_url)) =>
        /\ last.exc = "none"
        /\ last.ret = Some([path |-> options.repository_url.v,
                            base_path |-> <<"/">>,
                            supports_parent_diffs |-> TRUE])
        /\ Indexes(IsConfigCall) = {}

C3_Witness ==
    /\ last.op = "get_repository_info"
    /\ last.args.installed
    /\ options.repository_url = Some(<<"l", "p", ":", "m", "y", "p", "r", "o", "j">> (* lp:myproj *))
    /\ last.args.cfg[1].out = <<"l", "p", ":", "p", "r", "o", "j", "/", "s", "u", "b", "m", "i", "t", "_", "b", "r", "a", "n", "c", "h", " ", "\n">> (* lp:proj/submit_branch \n *)
    /\ last.args.cfg[2].out = <<"l", "p", ":", "p", "r", "o", "j", "/", "p", "a", "r", "e", "n", "t", "_", "l", "o", "c", "a", "t", "i", "o", "n", " ", "\n">> (* lp:proj/parent_location \n *)
    /\ last.ret = Some([path |-> <<"l", "p", ":", "m", "y", "p", "r", "o", "j">> (* lp:myproj *), base_path |-> <<"/">>,
                        supports_parent_diffs |-> TRUE])
    /\ last.calls = <<<<<<"b", "z", "r">>, <<"h", "e", "l", "p">> (* help *)>>>>

\* C4: _get_config(k) returns None when the output of "bzr config k"
\* contains 'ERROR: The "k" configuration option does not exist.', and
\* otherwise the output without its trailing whitespace (possibly the empty
\* string); exit code 3 is not a process failure.
C4_ConfigAbsentOrValue ==
    last.op = "_get_config" =>
        LET o == last.args.o
            message == <<"E", "R", "R", "O", "R", ":", " ", "T", "h", "e", " ", "\"">> (* ERROR: The " *) \o last.args.name
                         \o <<"\"", " ", "c", "o", "n", "f", "i", "g", "u", "r", "a", "t", "i", "o", "n", " ", "o", "p", "t", "i", "o", "n", " ", "d", "o", "e", "s", " ", "n", "o", "t", " ", "e", "x", "i", "s", "t", ".">> (* " configuration option does not exist. *)
        IN  /\ o.rc = 3 => last.exc = "none"
            /\ (o.rc \in {0, 3} /\ Contains(o.out, message)) =>
                  /\ last.exc = "none"
                  /\ last.ret.isNone
            /\ (o.rc \in {0, 3} /\ ~Contains(o.out, message)) =>
                  /\ last.exc = "none"
                  /\ ~last.ret.isNone
                  /\ IsRstripOf(last.ret.v, o.out)

C4_Witness ==
    /\ last.op = "_get_config"
    /\ last.args.name = <<"p", "a", "r", "e", "n", "t", "_", "l", "o", "c", "a", "t", "i", "o", "n">> (* parent_location *)
    /\ last.args.o.out =
          <<"E", "R", "R", "O", "R", ":", " ", "T", "h", "e", " ", "\"", "p", "a", "r", "e", "n", "t", "_", "l", "o", "c", "a", "t", "i", "o", "n", "\"", " ", "c", "o", "n", "f", "i", "g", "u", "r", "a", "t", "i", "o", "n", " ", "o", "p", "t", "i", "o", "n", " ", "d", "o", "e", "s", " ", "n", "o", "t", " ", "e", "x", "i", "s", "t", ".", "\n">> (* ERROR: The "parent_location" configuration option does not exist.\n *)
    /\ last.args.o.rc = 3
    /\ last.exc = "none"
    /\ last.ret = NoneV

\* C5: _get_range_diff returns None when "bzr dif" printed nothing and the
\* output unchanged otherwise, never the empty string, and never fails on
\* the exit status of "bzr dif".
C5_EmptyDiffIsNone ==
    last.op = "_get_range_diff" =>
        /\ last.exc = "none"
        /\ last.args.o.out = <<>> => last.ret = NoneV
        /\ last.args.o.out # <<>> => last.ret = Some(last.args.o.out)
        /\ last.ret # Some(<<>>)

C5_Witness ==
    /\ last.op = "_get_range_diff"
    /\ last.args.o = Outcome(<<>>, 3)
    /\ last.exc = "none"
    /\ last.ret = NoneV

\* C6: for a line log with a date, _extract_summary returns the text that
\* starts one character after the first \d{4}-\d{2}-\d{2} match of the
\* stripped log line; for '123: Jane Doe 2024-01-05 Fixed the thing' it
\* returns 'Fixed the thing'.
C6_SummarySlice ==
    (/\ last.op = "_extract_summary"
     /\ last.args.o.rc = 0
     /\ ~re_search_date(last.args.o.out).isNone) =>
        /\ last.exc = "none"
        /\ ~last.ret.isNone
        /\ \E n \in 0..Len(last.args.o.out) :
              LET line == SubSeq(last.args.o.out, 1, n)
              IN  /\ IsRstripOf(line, last.args.o.out)
                  /\ last.ret.v =
                        SubSeq(line, re_search_date(line).v + 2, Len(line))
        /\ last.args.o.out = <<"1", "2", "3", ":", " ", "J", "a", "n", "e", " ", "D", "o", "e", " ", "2", "0", "2", "4", "-", "0", "1", "-", "0", "5", " ", "F", "i", "x", "e", "d", " ", "t", "h", "e", " ", "t", "h", "i", "n", "g">> (* 123: Jane Doe 2024-01-05 Fixed the thing *)
              => last.ret = Some(<<"F", "i", "x", "e", "d", " ", "t", "h", "e", " ", "t", "h", "i", "n", "g">> (* Fixed the thing *))

\* C7: absent and empty results are values: get_repository_info returns
\* None without raising when bzr is not installed or neither branch key is
\* configured, and both flows (diff_between_revisions on any range of the
\* form from..to) return None in the diff slot whenever "bzr dif" prints
\* nothing, without raising an exception (the fatal exit on a failed
\* subprocess, "die", is a separate policy and is not counted here).
C7_AbsentIsValue ==
    /\ (/\ last.op = "get_repository_info"
        /\ \/ ~last.args.installed
           \/ /\ ~Truthy(options.repository_url)
              /\ last.args.cfg[1] =
                    Outcome(ErrorMessage(submit_branch) \o <<"\n">>, 3)
              /\ last.args.cfg[2] =
                    Outcome(ErrorMessage(parent_location) \o <<"\n">>, 3)) =>
          (last.exc = "none" /\ last.ret = NoneV)
    /\ (last.op = "diff" /\ last.args.d.out = <<>>) =>
          \/ last.exc = "die"
          \/ last.exc = "none" /\ last.ret = Some(<<NoneV, NoneV>>)
    /\ (/\ last.op = "diff_between_revisions"
        /\ last.args.d.out = <<>>
        /\ \E from \in Endpoints : \E to \in Endpoints :
              last.args.revision_range = from \o <<".", ".">> \o to) =>
          \/ last.exc = "die"
          \/ last.exc = "none" /\ last.ret = NoneV

\* The revision range diff(files) works on, given the text it uses when no
\* parent branch is set.
C8_Range(opts, unset) ==
    IF Truthy(opts.parent_branch)
    THEN <<"a", "n", "c", "e", "s", "t", "o", "r", ":">> (* ancestor: *) \o opts.parent_branch.v \o <<".", ".">>
    ELSE unset

C8_Holds(unset) ==
    last.op = "diff" =>
        LET range == C8_Range(last.args.opts, unset)
            fs == IF Truthy(last.args.files) THEN last.args.files.v ELSE <<>>
        IN  /\ Len(last.calls) >= 1
            /\ last.calls[1] =
                  <<<<"b", "z", "r">>, <<"d", "i", "f">>, <<"-", "q">>, <<"-", "r">>, range>> \o fs
            /\ \A i \in Indexes(IsLogLineCall) :
                  last.calls[i] =
                     <<<<"b", "z", "r">>, <<"l", "o", "g">>, <<"-", "r">>, <<"-", "1">>, <<"-", "-", "l", "i", "n", "e">> (* --line *)>>
            /\ \A i \in Indexes(IsChangelogCall) \cup Indexes(IsMissingCall) :
                  /\ Len(last.calls[i]) = 8
                  /\ last.calls[i][6] = <<"-", "r">>
                  /\ last.calls[i][7] = range
            /\ last.exc = "none" => last.ret.v[2] = NoneV

\* C8 (as stated): diff(files) works on the range "ancestor:<parent>.." when
\* a parent branch is set and on "submit.." otherwise; the summary is asked
\* for revision "-1"; the parent-diff slot of the result is None.
C8_Original == C8_Holds(<<"s", "u", "b", "m", "i", "t", ".", ".">> (* submit.. *))

\* C8 (amended): as stated, but the range without a parent branch is
\* "submit:..", with the colon of Bazaar's "submit:" revision specifier.
C8_PendingDiffRange == C8_Holds(<<"s", "u", "b", "m", "i", "t", ":", ".", ".">> (* submit:.. *))

C8_Witness ==
    /\ last.op = "diff"
    /\ ~Truthy(last.args.opts.parent_branch)
    /\ Len(last.calls) = 2
    /\ last.calls[1] = <<<<"b", "z", "r">>, <<"d", "i", "f">>, <<"-", "q">>, <<"-", "r">>, <<"s", "u", "b", "m", "i", "t", ":", ".", ".">> (* submit:.. *)>>
    /\ last.calls[2] =
          <<<<"b", "z", "r">>, <<"l", "o", "g">>, <<"-", "n", "1">>, <<"-", "-", "g", "n", "u", "-", "c", "h", "a", "n", "g", "e", "l", "o", "g">> (* --gnu-changelog *),
            <<"-", "-", "e", "x", "c", "l", "u", "d", "e", "-", "c", "o", "m", "m", "o", "n", "-", "a", "n", "c", "e", "s", "t", "r", "y">> (* --exclude-common-ancestry *), <<"-", "r">>, <<"s", "u", "b", "m", "i", "t", ":", ".", ".">> (* submit:.. *), <<"-", "-", "s", "h", "o", "r", "t">> (* --short *)>>

\* C9: for a range from + ".." + to (to without dots, from possibly with
\* dots), diff_between_revisions with guess_summary set and summary empty
\* asks the line log for exactly to, and asks the changelog (when the
\* description is guessed) for the whole range.
C9_SummaryOfToEndpoint ==
    \A from \in Endpoints : \A to \in Endpoints :
        (/\ last.op = "diff_between_revisions"
         /\ last.args.revision_range = from \o <<".", ".">> \o to
         /\ \A i \in 1..Len(to) : to[i] # "."
         /\ last.args.opts.guess_summary
         /\ ~Truthy(last.args.opts.summary)) =>
            /\ Len(last.calls) >= 2
            /\ last.calls[2] = <<<<"b", "z", "r">>, <<"l", "o", "g">>, <<"-", "r">>, to, <<"-", "-", "l", "i", "n", "e">> (* --line *)>>
            /\ (/\ last.args.opts.guess_description
                /\ ~Truthy(last.args.opts.description)) =>
                  /\ Len(last.calls) = 3
                  /\ IsChangelogCall(last.calls[3])
                  /\ last.calls[3][7] = last.args.revision_range

\* C10: in both flows "bzr dif" runs exactly once and first; the line log
\* runs at most once, only if guess_summary was set and summary empty, and
\* before the changelog; the changelog runs at most once, only if
\* guess_description was set and description empty, always as
\* "log -n1 --gnu-changelog --exclude-common-ancestry -r <range> --short";
\* "bzr missing" never runs.
C10_SubprocessProtocol ==
    last.op \in Flows =>
        /\ Indexes(IsDiffCall) = {1}
        /\ Indexes(IsMissingCall) = {}
        /\ \A i \in 2..Len(last.calls) :
              IsLogLineCall(last.calls[i]) \/ IsChangelogCall(last.calls[i])
        /\ Cardinality(Indexes(IsLogLineCall)) <= 1
        /\ Cardinality(Indexes(IsChangelogCall)) <= 1
        /\ Indexes(IsLogLineCall) # {} =>
              /\ last.args.opts.guess_summary
              /\ ~Truthy(last.args.opts.summary)
        /\ Indexes(IsChangelogCall) # {} =>
              /\ last.args.opts.guess_description
              /\ ~Truthy(last.args.opts.description)
        /\ \A i \in Indexes(IsLogLineCall) :
              \A j \in Indexes(IsChangelogCall) : i < j
        /\ \A i \in Indexes(IsChangelogCall) :
              \E range \in {last.calls[i][7]} :
                 last.calls[i] =
                    <<<<"b", "z", "r">>, <<"l", "o", "g">>, <<"-", "n", "1">>, <<"-", "-", "g", "n", "u", "-", "c", "h", "a", "n", "g", "e", "l", "o", "g">> (* --gnu-changelog *),
                      <<"-", "-", "e", "x", "c", "l", "u", "d", "e", "-", "c", "o", "m", "m", "o", "n", "-", "a", "n", "c", "e", "s", "t", "r", "y">> (* --exclude-common-ancestry *), <<"-", "r">>, range,
                      <<"-", "-", "s", "h", "o", "r", "t">> (* --short *)>>

C10_Witness ==
    /\ last.op = "diff_between_revisions"
    /\ last.args.revision_range = <<"1", ".", ".", "1">> (* 1..1 *)
    /\ Len(last.calls) = 2
    /\ last.calls[2] =
          <<<<"b", "z", "r">>, <<"l", "o", "g">>, <<"-", "n", "1">>, <<"-", "-", "g", "n", "u", "-", "c", "h", "a", "n", "g", "e", "l", "o", "g">> (* --gnu-changelog *),
            <<"-", "-", "e", "x", "c", "l", "u", "d", "e", "-", "c", "o", "m", "m", "o", "n", "-", "a", "n", "c", "e", "s", "t", "r", "y">> (* --exclude-common-ancestry *), <<"-", "r">>, <<"1", ".", ".", "1">> (* 1..1 *), <<"-", "-", "s", "h", "o", "r", "t">> (* --short *)>>
====
